---------------------------- MODULE Spec2Model ----------------------------
(***************************************************************************)
(* A model of mq/http_client.go of gorion: the IronMQ v3 HTTP client.      *)
(*                                                                         *)
(* The client turns three method calls (Enqueue, Dequeue, DeleteReserved)  *)
(* into one HTTP exchange each: it serialises a request struct with        *)
(* encoding/json, builds the request with newReq, hands it to              *)
(* gorion.HTTPDo together with a doFunc that decodes the response body,    *)
(* and returns the decoded value or the error.                             *)
(*                                                                         *)
(* Go values are modelled as follows.                                      *)
(*   string   a tuple of characters (each a TLA+ string), so that the      *)
(*            JSON encoder and decoder can work character by character;    *)
(*   int      an integer;   bool   a BOOLEAN;                              *)
(*   []T      [isNil |-> BOOLEAN, elems |-> tuple]: Go tells a nil slice   *)
(*            from an empty one, and so does encoding/json;                *)
(*   struct   a record with the Go field names;                            *)
(*   *T       [isNil |-> BOOLEAN, val |-> T] for a returned pointer, an    *)
(*            address of the heap for a pointer held by a running call;    *)
(*   error    a string naming the error value, "nil" for no error.         *)
(* JSON text is a tuple of tokens [t |-> kind, v |-> tuple of strings].    *)
(***************************************************************************)
EXTENDS Integers, Sequences, FiniteSets, TLC

(***************************************************************************)
(* Bounds of the model.                                                    *)
(***************************************************************************)
\* Number of calls that may run concurrently on the one shared client.
NumCalls == 2
\* Longest message list passed to Enqueue in the single-call specification.
MaxMsgs == 2

(***************************************************************************)
(* Characters of Go strings.  BadByte stands for a byte that is not valid  *)
(* UTF-8 (Go strings are arbitrary byte strings); ReplacementRune is the   *)
(* valid rune U+FFFD.  Quote and Lt are the characters the encoder         *)
(* escapes.                                                                *)
(***************************************************************************)
Quote == "\""
Lt == "<"
BadByte == "\\xff"
ReplacementRune == "U+FFFD"
Backslash == "\\"
EscLt == "\\u003c"
EscReplacement == "\\ufffd"

(***************************************************************************)
(* Type descriptors, standing for Go's reflect.Type of the values that     *)
(* are serialised.  A struct type lists its fields with their json tags.   *)
(***************************************************************************)
TString == [k |-> "string"]
TInt == [k |-> "int"]
TBool == [k |-> "bool"]
TSlice(elem) == [k |-> "slice", elem |-> elem]
TStruct(fields) == [k |-> "struct", fields |-> fields]
Field(name, key, type) == [name |-> name, key |-> key, type |-> type]

Tok(t, v) == [t |-> t, v |-> v]
P(t) == Tok(t, <<>>)

RECURSIVE Flatten(_)
Flatten(ss) == IF ss = <<>> THEN <<>> ELSE Head(ss) \o Flatten(Tail(ss))

(***************************************************************************)
(* encoding/json, encoding.  A string is written with '"' and backslash    *)
(* escaped by a backslash, with '<' written as the escape u003c (the       *)
(* Encoder escapes HTML by default) and with every byte that is not valid  *)
(* UTF-8 written as the escape ufffd, the replacement rune.  The newline   *)
(* Encode appends after the value is white space and no token.             *)
(***************************************************************************)
EscapeChar(ch) ==
    CASE ch = Quote -> <<Backslash, Quote>>
      [] ch = Backslash -> <<Backslash, Backslash>>
      [] ch = Lt -> <<EscLt>>
      [] ch = BadByte -> <<EscReplacement>>
      [] OTHER -> <<ch>>

EncodeString(s) == Tok("str", Flatten([i \in 1..Len(s) |-> EscapeChar(s[i])]))

RECURSIVE Marshal(_, _), MarshalElems(_, _, _), MarshalFields(_, _, _)
Marshal(type, val) ==
    CASE type.k = "string" -> <<EncodeString(val)>>
      [] type.k = "int" -> <<Tok("num", <<ToString(val)>>)>>
      [] type.k = "bool" -> <<P(IF val THEN "true" ELSE "false")>>
      [] type.k = "slice" ->
            IF val.isNil THEN <<P("null")>>
            ELSE <<P("[")>> \o MarshalElems(type.elem, val.elems, 1) \o <<P("]")>>
      [] type.k = "struct" ->
            <<P("{")>> \o MarshalFields(type.fields, val, 1) \o <<P("}")>>

MarshalElems(elem, xs, i) ==
    IF i > Len(xs) THEN <<>>
    ELSE (IF i > 1 THEN <<P(",")>> ELSE <<>>)
         \o Marshal(elem, xs[i]) \o MarshalElems(elem, xs, i + 1)

MarshalFields(fields, val, i) ==
    IF i > Len(fields) THEN <<>>
    ELSE (IF i > 1 THEN <<P(",")>> ELSE <<>>)
         \o <<Tok("str", <<fields[i].key>>), P(":")>>
         \o Marshal(fields[i].type, val[fields[i].name])
         \o MarshalFields(fields, val, i + 1)

(***************************************************************************)
(* encoding/json, decoding.  Decoder.Decode first scans one complete JSON  *)
(* value off the stream (io.EOF on an empty stream, io.ErrUnexpectedEOF    *)
(* on a truncated value, a SyntaxError otherwise; the target is untouched  *)
(* in these cases, and what follows the value is left unread), then        *)
(* stores the value into the target.                                       *)
(***************************************************************************)
ErrEOF == "EOF"
ErrUnexpectedEOF == "unexpected EOF"
ErrSyntax == "json.SyntaxError"
ErrUnmarshalType == "json.UnmarshalTypeError"

\* unquote: the characters a string token stands for, or a failure.
RECURSIVE Unquote(_)
Unquote(us) ==
    IF us = <<>> THEN [ok |-> TRUE, s |-> <<>>]
    ELSE IF Head(us) = Backslash THEN
        IF Len(us) >= 2 /\ us[2] \in {Quote, Backslash}
        THEN LET r == Unquote(Tail(Tail(us)))
             IN  [ok |-> r.ok, s |-> <<us[2]>> \o r.s]
        ELSE [ok |-> FALSE, s |-> <<>>]
    ELSE IF Head(us) = Quote THEN [ok |-> FALSE, s |-> <<>>]
    ELSE LET r == Unquote(Tail(us))
             ch == CASE Head(us) = EscLt -> Lt
                     [] Head(us) = EscReplacement -> ReplacementRune
                     [] Head(us) = BadByte -> ReplacementRune
                     [] OTHER -> Head(us)
         IN  [ok |-> r.ok, s |-> <<ch>> \o r.s]

JNull == [k |-> "null"]
Parsed(val, rest) == [err |-> "nil", val |-> val, rest |-> rest]
ParseFail(err) == [err |-> err, val |-> JNull, rest |-> <<>>]

RECURSIVE ParseValue(_), ParseElems(_, _), ParseMembers(_, _)
ParseValue(ts) ==
    IF ts = <<>> THEN ParseFail(ErrUnexpectedEOF)
    ELSE LET h == Head(ts)
             r == Tail(ts)
         IN  CASE h.t = "null" -> Parsed(JNull, r)
               [] h.t \in {"true", "false"} ->
                     Parsed([k |-> "bool", b |-> (h.t = "true")], r)
               [] h.t = "num" -> Parsed([k |-> "num", text |-> h.v[1]], r)
               [] h.t = "str" ->
                     LET u == Unquote(h.v)
                     IN  IF u.ok THEN Parsed([k |-> "str", s |-> u.s], r)
                         ELSE ParseFail(ErrSyntax)
               [] h.t = "[" ->
                     IF r # <<>> /\ Head(r).t = "]"
                     THEN Parsed([k |-> "arr", items |-> <<>>], Tail(r))
                     ELSE ParseElems(r, <<>>)
               [] h.t = "{" ->
                     IF r # <<>> /\ Head(r).t = "}"
                     THEN Parsed([k |-> "obj", members |-> <<>>], Tail(r))
                     ELSE ParseMembers(r, <<>>)
               [] OTHER -> ParseFail(ErrSyntax)

ParseElems(ts, acc) ==
    LET e == ParseValue(ts)
    IN  IF e.err # "nil" THEN ParseFail(e.err)
        ELSE IF e.rest = <<>> THEN ParseFail(ErrUnexpectedEOF)
        ELSE IF Head(e.rest).t = "]"
             THEN Parsed([k |-> "arr", items |-> Append(acc, e.val)], Tail(e.rest))
        ELSE IF Head(e.rest).t = ","
             THEN ParseElems(Tail(e.rest), Append(acc, e.val))
        ELSE ParseFail(ErrSyntax)

ParseMembers(ts, acc) ==
    IF ts = <<>> THEN ParseFail(ErrUnexpectedEOF)
    ELSE IF Head(ts).t # "str" THEN ParseFail(ErrSyntax)
    ELSE LET key == Unquote(Head(ts).v)
             r1 == Tail(ts)
         IN  IF ~key.ok THEN ParseFail(ErrSyntax)
             ELSE IF r1 = <<>> THEN ParseFail(ErrUnexpectedEOF)
             ELSE IF Head(r1).t # ":" THEN ParseFail(ErrSyntax)
             ELSE LET e == ParseValue(Tail(r1))
                      m == [key |-> key.s, val |-> e.val]
                  IN  IF e.err # "nil" THEN ParseFail(e.err)
                      ELSE IF e.rest = <<>> THEN ParseFail(ErrUnexpectedEOF)
                      ELSE IF Head(e.rest).t = "}"
                           THEN Parsed([k |-> "obj", members |-> Append(acc, m)],
                                       Tail(e.rest))
                      ELSE IF Head(e.rest).t = ","
                           THEN ParseMembers(Tail(e.rest), Append(acc, m))
                      ELSE ParseFail(ErrSyntax)

(***************************************************************************)
(* Storing a scanned value into a Go target of a given type                *)
(* (decodeState.value and its literalStore, array and object).  null       *)
(* leaves a string, int, bool or struct as it is and sets a slice to nil;  *)
(* a JSON value of the wrong kind leaves the target as it is and saves an  *)
(* UnmarshalTypeError, after which decoding continues with the rest of     *)
(* the value; the first saved error is what Decode returns.  Object keys   *)
(* that match no field are skipped.                                        *)
(***************************************************************************)
RECURSIVE Zero(_)
Zero(type) ==
    CASE type.k = "string" -> <<>>
      [] type.k = "int" -> 0
      [] type.k = "bool" -> FALSE
      [] type.k = "slice" -> [isNil |-> TRUE, elems |-> <<>>]
      [] type.k = "struct" ->
            [n \in {type.fields[i].name : i \in 1..Len(type.fields)} |->
                LET i == CHOOSE j \in 1..Len(type.fields) : type.fields[j].name = n
                IN  Zero(type.fields[i].type)]

\* The integers a number token of the model can stand for.
NumDomain == -1..3 \cup {29, 30, 31, 60, 86400, 86401}
IsIntText(text) == \E n \in NumDomain : ToString(n) = text
Atoi(text) == CHOOSE n \in NumDomain : ToString(n) = text

Stored(val, err) == [val |-> val, err |-> err]
FirstErr(e1, e2) == IF e1 # "nil" THEN e1 ELSE e2

RECURSIVE Store(_, _, _), StoreElems(_, _, _, _, _), StoreMembers(_, _, _, _, _)
Store(type, jv, cur) ==
    CASE jv.k = "null" ->
            IF type.k = "slice" THEN Stored(Zero(type), "nil") ELSE Stored(cur, "nil")
      [] jv.k = "str" ->
            IF type.k = "string" THEN Stored(jv.s, "nil")
            ELSE Stored(cur, ErrUnmarshalType)
      [] jv.k = "num" ->
            IF type.k = "int" /\ IsIntText(jv.text) THEN Stored(Atoi(jv.text), "nil")
            ELSE Stored(cur, ErrUnmarshalType)
      [] jv.k = "bool" ->
            IF type.k = "bool" THEN Stored(jv.b, "nil")
            ELSE Stored(cur, ErrUnmarshalType)
      [] jv.k = "arr" ->
            IF type.k = "slice"
            THEN StoreElems(type.elem, jv.items, 1, <<>>, "nil")
            ELSE Stored(cur, ErrUnmarshalType)
      [] jv.k = "obj" ->
            IF type.k = "struct"
            THEN StoreMembers(type.fields, jv.members, 1, cur, "nil")
            ELSE Stored(cur, ErrUnmarshalType)

StoreElems(elem, items, i, acc, err) ==
    IF i > Len(items) THEN Stored([isNil |-> FALSE, elems |-> acc], err)
    ELSE LET e == Store(elem, items[i], Zero(elem))
         IN  StoreElems(elem, items, i + 1, Append(acc, e.val), FirstErr(err, e.err))

StoreMembers(fields, members, i, cur, err) ==
    IF i > Len(members) THEN Stored(cur, err)
    ELSE LET hits == {j \in 1..Len(fields) : <<fields[j].key>> = members[i].key}
         IN  IF hits = {} THEN StoreMembers(fields, members, i + 1, cur, err)
             ELSE LET f == fields[CHOOSE j \in hits : TRUE]
                      e == Store(f.type, members[i].val, cur[f.name])
                  IN  StoreMembers(fields, members, i + 1,
                                   [cur EXCEPT ![f.name] = e.val],
                                   FirstErr(err, e.err))

\* json.NewDecoder(body).Decode(target): the target afterwards, and the error.
Decode(type, body, cur) ==
    IF body = <<>> THEN Stored(cur, ErrEOF)
    ELSE LET p == ParseValue(body)
         IN  IF p.err # "nil" THEN Stored(cur, p.err)
             ELSE Store(type, p.val, cur)

(***************************************************************************)
(* The types of the mq package.  The request and response structs are      *)
(* declared in http_client.go; NewMessage, Enqueued, Deleted and           *)
(* DequeuedMessage are declared elsewhere in the package.                  *)
(***************************************************************************)
NewMessageT == TStruct(<<Field("Body", "body", TString), Field("Delay", "delay", TInt)>>)
EnqueuedT == TStruct(<<Field("IDs", "ids", TSlice(TString)), Field("Msg", "msg", TString)>>)
DeletedT == TStruct(<<Field("Msg", "msg", TString)>>)
DequeuedMessageT ==
    TStruct(<<Field("ID", "id", TInt), Field("Body", "body", TString),
              Field("ReservationID", "reservation_id", TString)>>)

enqueueReq == TStruct(<<Field("Messages", "messages", TSlice(NewMessageT))>>)
dequeueReq ==
    TStruct(<<Field("Num", "n", TInt), Field("Timeout", "timeout", TInt),
              Field("Wait", "wait", TInt), Field("Delete", "delete", TBool)>>)
dequeueResp == TStruct(<<Field("Messages", "messages", TSlice(DequeuedMessageT))>>)
deleteReservedReq == TStruct(<<Field("ReservationID", "reservation_id", TString)>>)

\* The ranges the service accepts for a reservation timeout and a long-poll wait.
MinTimeout == 30
MaxTimeout == 86400
MinWait == 0
MaxWait == 30
timeoutInRange(timeout) == timeout >= MinTimeout /\ timeout <= MaxTimeout
waitInRange(wait) == wait >= MinWait /\ wait <= MaxWait
ErrTimeoutOutOfRange == "ErrTimeoutOutOfRange"
ErrWaitOutOfRange == "ErrWaitOutOfRange"

Slice(elems) == [isNil |-> FALSE, elems |-> elems]
NilSlice == [isNil |-> TRUE, elems |-> <<>>]
Ptr(val) == [isNil |-> FALSE, val |-> val]
NilPtr(type) == [isNil |-> TRUE, val |-> Zero(type)]

(***************************************************************************)
(* State.                                                                  *)
(*   client     the httpClient: endpt, oauthToken, transport, client       *)
(*   heap       the objects calls allocate: each call's request buffer     *)
(*              and its ret, by address                                    *)
(*   pc         each call's position: "idle" (not called), "built" (about  *)
(*              to enter HTTPDo), "inflight" (request issued), "responded" *)
(*              (HTTPDo about to return), "done" (returned to the caller)  *)
(*   args       the arguments of each call                                 *)
(*   cancelled  whether the call's context is done                         *)
(*   req        the *http.Request the call built                           *)
(*   retp       the call's ret pointer                                     *)
(*   wire       the requests the call put on the network, in order         *)
(*   resp       what the exchange yielded: a transport error, or a status  *)
(*              and a body                                                 *)
(*   doErr      the error HTTPDo returns                                   *)
(*   result     what the call returned: [ret, err]                         *)
(***************************************************************************)
VARIABLES client, heap, pc, args, cancelled, req, retp, wire, resp, doErr, result
vars == <<client, heap, pc, args, cancelled, req, retp, wire, resp, doErr, result>>

Calls == 1..NumCalls
Addrs == 1..(2 * NumCalls)

SchemeHTTP == "http"
SchemeHTTPS == "https"
applicationJSON == "application/json"
oauth == "OAuth"

\* fmt.Sprintf with the verbs %s and %d: the pieces of the resulting string.
Itoa(n) == <<ToString(n)>>

NewHTTPClient(scheme, host, port, oauthToken, projectID) ==
    [transport |-> "transport0",
     client |-> "client0",
     endpt |-> <<scheme, "://">> \o host \o <<":">> \o Itoa(port)
               \o <<"/3/projects/">> \o projectID,
     oauthToken |-> oauthToken]

NoArgs ==
    [op |-> "none", qName |-> <<>>, msgs |-> NilSlice, num |-> 0, timeout |-> 0,
     wait |-> 0, delete |-> FALSE, messageID |-> 0, reservationID |-> <<>>]
EnqueueArgs(queueName, msgs) ==
    [NoArgs EXCEPT !.op = "Enqueue", !.qName = queueName, !.msgs = msgs]
DequeueArgs(qName, num, timeout, wait, delete) ==
    [NoArgs EXCEPT !.op = "Dequeue", !.qName = qName, !.num = num,
                   !.timeout = timeout, !.wait = wait, !.delete = delete]
DeleteReservedArgs(qName, messageID, reservationID) ==
    [NoArgs EXCEPT !.op = "DeleteReserved", !.qName = qName,
                   !.messageID = messageID, !.reservationID = reservationID]

Header(contentType, authorization) ==
    [h \in {"Content-Type", "Authorization"} |->
        IF h = "Content-Type" THEN contentType ELSE authorization]
NoReq == [method |-> "", url |-> <<>>, header |-> Header(<<>>, <<>>), body |-> 0]
NoResp == [terr |-> "none", status |-> 0, body |-> <<>>]
NoResult == [ret |-> NilSlice, err |-> "nil"]
FreeCell == [used |-> FALSE, val |-> <<>>]

Init ==
    /\ client = NewHTTPClient(SchemeHTTPS, <<"mq.example">>, 443, <<"tok">>, <<"p1">>)
    /\ heap = [a \in Addrs |-> FreeCell]
    /\ pc = [c \in Calls |-> "idle"]
    /\ args = [c \in Calls |-> NoArgs]
    /\ cancelled = [c \in Calls |-> FALSE]
    /\ req = [c \in Calls |-> NoReq]
    /\ retp = [c \in Calls |-> 0]
    /\ wire = [c \in Calls |-> <<>>]
    /\ resp = [c \in Calls |-> NoResp]
    /\ doErr = [c \in Calls |-> "nil"]
    /\ result = [c \in Calls |-> NoResult]

(***************************************************************************)
(* new(T) and &bytes.Buffer{}: a fresh object, at an address that no       *)
(* other object has (the lowest free one).                                 *)
(***************************************************************************)
\* Mutant: every object lives in one slot shared by all calls.
AllocShared(h) == 1

Alloc(h) == CHOOSE a \in Addrs : ~h[a].used /\ \A b \in Addrs : ~h[b].used => a <= b
Object(val) == [used |-> TRUE, val |-> val]

(***************************************************************************)
(* http.NewRequest parses the URL and fails on a '%' that does not start   *)
(* a two-digit hexadecimal escape.                                         *)
(***************************************************************************)
HexDigits == {"0", "1", "2", "3", "4", "5", "6", "7", "8", "9", "a", "b", "c", "d", "e", "f"}
ErrURLEscape == "url.EscapeError"
ValidURL(u) ==
    \A i \in 1..Len(u) :
        u[i] = "%" => i + 2 <= Len(u) /\ u[i + 1] \in HexDigits /\ u[i + 2] \in HexDigits

\* Mutant: the json header is not set.
newReqNoContentType(h, method, path, body) ==
    LET url == h.endpt \o <<"/">> \o path
    IN  IF ~ValidURL(url) THEN [req |-> NoReq, err |-> ErrURLEscape]
        ELSE [req |-> [method |-> method,
                       url |-> url,
                       header |-> Header(<<>>, <<oauth, " ">> \o h.oauthToken),
                       body |-> body],
              err |-> "nil"]

\* h.newReq(method, path, body)
newReq(h, method, path, body) ==
    LET url == h.endpt \o <<"/">> \o path
    IN  IF ~ValidURL(url) THEN [req |-> NoReq, err |-> ErrURLEscape]
        ELSE [req |-> [method |-> method,
                       url |-> url,
                       header |-> Header(<<applicationJSON>>,
                                         <<oauth, " ">> \o h.oauthToken),
                       body |-> body],
              err |-> "nil"]

\* A return before HTTPDo: nothing the call allocated stays reachable.
ReturnEarly(c, ret, err) ==
    /\ pc' = [pc EXCEPT ![c] = "done"]
    /\ result' = [result EXCEPT ![c] = [ret |-> ret, err |-> err]]
    /\ UNCHANGED <<heap, req, retp>>

\* The call has its request and its ret, and enters HTTPDo.
EnterHTTPDo(c, r, rp, h) ==
    /\ pc' = [pc EXCEPT ![c] = "built"]
    /\ req' = [req EXCEPT ![c] = r]
    /\ retp' = [retp EXCEPT ![c] = rp]
    /\ heap' = h
    /\ UNCHANGED result

(***************************************************************************)
(* Enqueue, up to its call of HTTPDo.                                      *)
(***************************************************************************)
\* Mutant: a message equal to the one before it is sent once.
RECURSIVE Dedup(_)
Dedup(xs) ==
    IF Len(xs) <= 1 THEN xs
    ELSE IF xs[1] = xs[2] THEN Dedup(Tail(xs))
    ELSE <<xs[1]>> \o Dedup(Tail(xs))
EnqueueBodyDedup(msgs) ==
    Marshal(enqueueReq, [Messages |-> [msgs EXCEPT !.elems = Dedup(@)]])

\* json.NewEncoder(reqBody).Encode(enqueueReq{Messages: msgs})
EnqueueBody(msgs) == Marshal(enqueueReq, [Messages |-> msgs])

Enqueue(c, queueName, msgs) ==
    /\ pc[c] = "idle"
    /\ args' = [args EXCEPT ![c] = EnqueueArgs(queueName, msgs)]
    /\ LET reqBody == Alloc(heap)
           h1 == [heap EXCEPT ![reqBody] =
                     Object(EnqueueBody(msgs))]
           r == newReq(client, "POST",
                       <<"queues/">> \o queueName \o <<"/messages">>, reqBody)
           ret == Alloc(h1)
       IN  IF r.err # "nil" THEN ReturnEarly(c, NilPtr(EnqueuedT), r.err)
           ELSE EnterHTTPDo(c, r.req, ret, [h1 EXCEPT ![ret] = Object(Zero(EnqueuedT))])
    /\ UNCHANGED <<client, cancelled, wire, resp, doErr>>

(***************************************************************************)
(* Dequeue, up to its call of HTTPDo.  The validation error, "nil" when    *)
(* timeout and wait are both in range:                                     *)
(***************************************************************************)
\* Mutant: wait is not validated.
DequeueValidateNoWait(timeout, wait) ==
    IF ~timeoutInRange(timeout) THEN ErrTimeoutOutOfRange ELSE "nil"

\* Mutant: wait is validated before timeout.
DequeueValidateWaitFirst(timeout, wait) ==
    IF ~waitInRange(wait) THEN ErrWaitOutOfRange
    ELSE IF ~timeoutInRange(timeout) THEN ErrTimeoutOutOfRange
    ELSE "nil"

DequeueValidate(timeout, wait) ==
    IF ~timeoutInRange(timeout) THEN ErrTimeoutOutOfRange
    ELSE IF ~waitInRange(wait) THEN ErrWaitOutOfRange
    ELSE "nil"

Dequeue(c, qName, num, timeout, wait, delete) ==
    /\ pc[c] = "idle"
    /\ args' = [args EXCEPT ![c] = DequeueArgs(qName, num, timeout, wait, delete)]
    /\ LET invalid == DequeueValidate(timeout, wait)
           body == Alloc(heap)
           h1 == [heap EXCEPT ![body] =
                     Object(Marshal(dequeueReq,
                                    [Num |-> num, Timeout |-> timeout,
                                     Wait |-> wait, Delete |-> delete]))]
           r == newReq(client, "POST",
                       <<"queues/">> \o qName \o <<"/reservations">>, body)
           ret == Alloc(h1)
       IN  IF invalid # "nil" THEN ReturnEarly(c, NilSlice, invalid)
           ELSE IF r.err # "nil" THEN ReturnEarly(c, NilSlice, r.err)
           ELSE EnterHTTPDo(c, r.req, ret, [h1 EXCEPT ![ret] = Object(Zero(dequeueResp))])
    /\ UNCHANGED <<client, cancelled, wire, resp, doErr>>

(***************************************************************************)
(* DeleteReserved, up to its call of HTTPDo.                               *)
(***************************************************************************)
DeleteReserved(c, qName, messageID, reservationID) ==
    /\ pc[c] = "idle"
    /\ args' = [args EXCEPT ![c] = DeleteReservedArgs(qName, messageID, reservationID)]
    /\ LET body == Alloc(heap)
           h1 == [heap EXCEPT ![body] =
                     Object(Marshal(deleteReservedReq,
                                    [ReservationID |-> reservationID]))]
           r == newReq(client, "DELETE",
                       <<"queues/">> \o qName \o <<"/messages/">> \o Itoa(messageID),
                       body)
           ret == Alloc(h1)
       IN  IF r.err # "nil" THEN ReturnEarly(c, NilPtr(DeletedT), r.err)
           ELSE EnterHTTPDo(c, r.req, ret, [h1 EXCEPT ![ret] = Object(Zero(DeletedT))])
    /\ UNCHANGED <<client, cancelled, wire, resp, doErr>>

(***************************************************************************)
(* doFunc, the closure each operation hands to HTTPDo: given a transport   *)
(* error it returns it; otherwise it decodes the response body into ret    *)
(* and returns the decoder's error.  It never reads the status.            *)
(***************************************************************************)
RetType(op) ==
    CASE op = "Enqueue" -> EnqueuedT
      [] op = "Dequeue" -> dequeueResp
      [] op = "DeleteReserved" -> DeletedT

\* Mutant: the body is not decoded.
doFuncNoDecode(type, rsp, ret) == [ret |-> ret, err |-> rsp.terr]

\* Mutant: a status of 400 or more is an error.
doFuncCheckStatus(type, rsp, ret) ==
    IF rsp.terr # "nil" THEN [ret |-> ret, err |-> rsp.terr]
    ELSE IF rsp.status >= 400 THEN [ret |-> ret, err |-> "unexpected status"]
    ELSE LET d == Decode(type, rsp.body, ret)
         IN  [ret |-> d.val, err |-> d.err]

doFunc(type, rsp, ret) ==
    IF rsp.terr # "nil" THEN [ret |-> ret, err |-> rsp.terr]
    ELSE LET d == Decode(type, rsp.body, ret)
         IN  [ret |-> d.val, err |-> d.err]

(***************************************************************************)
(* gorion.HTTPDo(ctx, client, transport, req, doFunc): one HTTP exchange.  *)
(* It issues the request once; the exchange ends with a transport error    *)
(* or a response, which doFunc receives and whose error HTTPDo returns;    *)
(* when ctx is done while the request is in flight, the request is         *)
(* cancelled and the exchange ends with the cancellation error.            *)
(***************************************************************************)
ErrCanceled == "context canceled"
ErrConnRefused == "dial tcp: connection refused"

HTTPDoSend(c) ==
    /\ pc[c] = "built"
    /\ pc' = [pc EXCEPT ![c] = "inflight"]
    /\ wire' = [wire EXCEPT ![c] =
                   Append(@, [req[c] EXCEPT !.body = heap[req[c].body].val])]
    /\ UNCHANGED <<client, heap, args, cancelled, req, retp, resp, doErr, result>>

HTTPDoFinish(c, rsp) ==
    LET d == doFunc(RetType(args[c].op), rsp, heap[retp[c]].val)
    IN  /\ resp' = [resp EXCEPT ![c] = rsp]
        /\ heap' = [heap EXCEPT ![retp[c]].val = d.ret]
        /\ doErr' = [doErr EXCEPT ![c] = d.err]
        /\ pc' = [pc EXCEPT ![c] = "responded"]
        /\ UNCHANGED <<client, args, cancelled, req, retp, wire, result>>

\* The exchange ends: the transport fails, or the service answers.
HTTPDoRespond(c, rsp) ==
    /\ pc[c] = "inflight"
    /\ ~cancelled[c]
    /\ HTTPDoFinish(c, rsp)

\* ctx is done while the request is in flight.
HTTPDoAbort(c) ==
    /\ pc[c] = "inflight"
    /\ cancelled[c]
    /\ HTTPDoFinish(c, [terr |-> ErrCanceled, status |-> 0, body |-> <<>>])

\* The caller, or a deadline, cancels the context of a running call.
CtxCancel(c) ==
    /\ pc[c] \in {"built", "inflight"}
    /\ ~cancelled[c]
    /\ cancelled' = [cancelled EXCEPT ![c] = TRUE]
    /\ UNCHANGED <<client, heap, pc, args, req, retp, wire, resp, doErr, result>>

(***************************************************************************)
(* What each operation returns once HTTPDo has returned err.               *)
(***************************************************************************)
\* Mutant: ret is returned together with the error.
EnqueueResultPartial(err, ret) == [ret |-> Ptr(ret), err |-> err]

\* Mutant: the error of HTTPDo is dropped.
EnqueueResultSwallow(err, ret) == [ret |-> Ptr(ret), err |-> "nil"]

EnqueueResult(err, ret) ==
    IF err # "nil" THEN [ret |-> NilPtr(EnqueuedT), err |-> err]
    ELSE [ret |-> Ptr(ret), err |-> "nil"]

DequeueResult(err, ret) ==
    IF err # "nil" THEN [ret |-> NilSlice, err |-> err]
    ELSE [ret |-> ret.Messages, err |-> "nil"]

DeleteReservedResult(err, ret) ==
    IF err # "nil" THEN [ret |-> NilPtr(DeletedT), err |-> err]
    ELSE [ret |-> Ptr(ret), err |-> "nil"]

\* Mutant: a failed exchange is tried again.
ReturnRetrying(c) ==
    /\ pc[c] = "responded"
    /\ IF doErr[c] # "nil"
       THEN /\ pc' = [pc EXCEPT ![c] = "built"]
            /\ UNCHANGED result
       ELSE /\ pc' = [pc EXCEPT ![c] = "done"]
            /\ result' = [result EXCEPT ![c] = [ret |-> heap[retp[c]].val, err |-> "nil"]]
    /\ UNCHANGED <<client, heap, args, cancelled, req, retp, wire, resp, doErr>>

Return(c) ==
    /\ pc[c] = "responded"
    /\ pc' = [pc EXCEPT ![c] = "done"]
    /\ LET ret == heap[retp[c]].val
       IN  result' = [result EXCEPT ![c] =
                CASE args[c].op = "Enqueue" -> EnqueueResult(doErr[c], ret)
                  [] args[c].op = "Dequeue" -> DequeueResult(doErr[c], ret)
                  [] args[c].op = "DeleteReserved" -> DeleteReservedResult(doErr[c], ret)]
    /\ UNCHANGED <<client, heap, args, cancelled, req, retp, wire, resp, doErr>>

(***************************************************************************)
(* The inputs the specifications draw from.                                *)
(***************************************************************************)
Q1 == <<"q1">>
QBadEscape == <<"%", "z", "z">>
QueueNames == {Q1, QBadEscape}

M1 == [Body |-> <<"a">>, Delay |-> 0]
M2 == [Body |-> <<Quote, Lt>>, Delay |-> 1]
M3 == [Body |-> <<BadByte>>, Delay |-> 0]
M4 == [Body |-> <<ReplacementRune, Backslash>>, Delay |-> 3]
Messages == {M1, M2, M3, M4}
Tuples(S, n) == UNION {[1..k -> S] : k \in 0..n}
MessageLists == {NilSlice} \cup {Slice(t) : t \in Tuples(Messages, MaxMsgs)}

Timeouts == {MinTimeout - 1, MinTimeout, MaxTimeout, MaxTimeout + 1}
Waits == {MinWait - 1, MinWait, MaxWait, MaxWait + 1}
Nums == {-1, 0, 1}
MessageIDs == {-1, 0, 2}
ReservationIDs == {<<>>, <<"r">>, <<Quote, Lt>>, <<"r", BadByte>>}

\* Values the service may answer with; their strings are valid Unicode.
E1 == [IDs |-> Slice(<< <<"1">>, <<"2">> >>), Msg |-> <<"ok", Quote>>]
E2 == [IDs |-> NilSlice, Msg |-> <<>>]
E3 == [IDs |-> Slice(<<>>), Msg |-> <<Lt, ReplacementRune, Backslash>>]
EnqueuedValues == {E1, E2, E3}
D1 == [ID |-> 1, Body |-> <<"a", Quote>>, ReservationID |-> <<"r">>]
D2 == [ID |-> 2, Body |-> <<Lt>>, ReservationID |-> <<>>]
DequeuedLists == {NilSlice, Slice(<<>>), Slice(<<D1>>), Slice(<<D2, D1>>)}
DeletedValues == {[Msg |-> <<"Deleted">>], [Msg |-> <<>>]}

Str(s) == Tok("str", s)
Num(text) == Tok("num", <<text>>)
\* Bodies that are not the JSON of a value of the expected shape.
MalformedBodies ==
    { <<>>,                                      \* empty body
      <<P("{")>>,                                \* truncated
      <<P("]")>>,                                \* not JSON
      <<Str(<<Backslash, "a">>)>>,               \* invalid escape
      <<P("{"), Str(<<"msg">>), P(":"), Num("5"), P("}")>>,   \* msg: wrong kind
      <<P("{"), Str(<<"ids">>), P(":"), Str(<<"x">>), P(","),
        Str(<<"messages">>), P(":"), Num("1.5"), P(","),
        Str(<<"msg">>), P(":"), Str(<<"partial">>), P("}")>> } \* wrong kinds, then msg
\* Bodies of another form than Marshal writes that still decode.
LenientBodies ==
    { <<P("null")>>,
      <<P("{"), P("}")>>,
      <<P("{"), Str(<<"extra">>), P(":"), P("["), P("true"), P("]"), P(","),
        Str(<<"msg">>), P(":"), Str(<<"m", BadByte>>), P("}"), P("]")>> }

GoodBodies(op) ==
    CASE op = "Enqueue" -> {Marshal(EnqueuedT, e) : e \in EnqueuedValues}
      [] op = "Dequeue" -> {Marshal(dequeueResp, [Messages |-> l]) : l \in DequeuedLists}
      [] op = "DeleteReserved" -> {Marshal(DeletedT, d) : d \in DeletedValues}
      [] OTHER -> {}

Statuses == {200, 404, 500}
Response(status, body) == [terr |-> "nil", status |-> status, body |-> body]
TransportFailure(err) == [terr |-> err, status |-> 0, body |-> <<>>]

(***************************************************************************)
(* Spec: NumCalls callers share the client, and their calls interleave.    *)
(***************************************************************************)
EnqueueInputs == {EnqueueArgs(Q1, Slice(<<M1>>)), EnqueueArgs(Q1, Slice(<<M2, M1>>))}
DequeueInputs == {DequeueArgs(Q1, 1, 60, 0, FALSE), DequeueArgs(Q1, 1, MaxTimeout + 1, 0, TRUE)}
DeleteReservedInputs == {DeleteReservedArgs(Q1, 2, <<"r">>)}
Outcomes(op) ==
    {TransportFailure(ErrConnRefused)}
    \cup {Response(200, b) : b \in {Marshal(EnqueuedT, E1),
                                     Marshal(dequeueResp, [Messages |-> Slice(<<D1>>)])}}

Next ==
    \E c \in Calls :
        \/ \E a \in EnqueueInputs : Enqueue(c, a.qName, a.msgs)
        \/ \E a \in DequeueInputs : Dequeue(c, a.qName, a.num, a.timeout, a.wait, a.delete)
        \/ \E a \in DeleteReservedInputs :
              DeleteReserved(c, a.qName, a.messageID, a.reservationID)
        \/ HTTPDoSend(c)
        \/ \E rsp \in Outcomes(args[c].op) : HTTPDoRespond(c, rsp)
        \/ HTTPDoAbort(c)
        \/ CtxCancel(c)
        \/ Return(c)

Spec == Init /\ [][Next]_vars

(***************************************************************************)
(* SpecSolo: one call, with its arguments and the service's answer drawn   *)
(* from the full input sets.                                               *)
(***************************************************************************)
SoloOutcomes(op) ==
    {TransportFailure(ErrConnRefused)}
    \cup {Response(st, b) : st \in Statuses,
                            b \in GoodBodies(op) \cup MalformedBodies \cup LenientBodies}

NextSolo ==
    \/ \E q \in QueueNames, msgs \in MessageLists : Enqueue(1, q, msgs)
    \/ \E q \in QueueNames, num \in Nums, timeout \in Timeouts, wait \in Waits,
          delete \in BOOLEAN : Dequeue(1, q, num, timeout, wait, delete)
    \/ \E q \in QueueNames, id \in MessageIDs, rid \in ReservationIDs :
          DeleteReserved(1, q, id, rid)
    \/ HTTPDoSend(1)
    \/ \E rsp \in SoloOutcomes(args[1].op) : HTTPDoRespond(1, rsp)
    \/ HTTPDoAbort(1)
    \/ CtxCancel(1)
    \/ Return(1)

SpecSolo == Init /\ [][NextSolo]_vars

\* The steps of the program itself are taken whenever they stay enabled.
FairSolo == SpecSolo /\ WF_vars(HTTPDoSend(1)) /\ WF_vars(HTTPDoAbort(1)) /\ WF_vars(Return(1))

(***************************************************************************)
(* Definitions the properties share.                                       *)
(***************************************************************************)
ValidationErrors == {ErrTimeoutOutOfRange, ErrWaitOutOfRange}
ConstructionErrors == {ErrURLEscape}
TransportErrors == {ErrConnRefused, ErrCanceled}
DecodeErrors == {ErrEOF, ErrUnexpectedEOF, ErrSyntax, ErrUnmarshalType}

Exchanged(c) == pc[c] = "done" /\ resp[c].terr # "none"
ValidUTF8(s) == \A i \in 1..Len(s) : s[i] # BadByte

\* What an operation returns for an exchange that ended with rsp, when its
\* ret is its own, freshly zeroed.
ResultOf(op, rsp) ==
    LET d == doFunc(RetType(op), rsp, Zero(RetType(op)))
    IN  CASE op = "Enqueue" -> EnqueueResult(d.err, d.ret)
          [] op = "Dequeue" -> DequeueResult(d.err, d.ret)
          [] op = "DeleteReserved" -> DeleteReservedResult(d.err, d.ret)

\* The request an operation builds from its arguments alone.
BodyOf(a) ==
    CASE a.op = "Enqueue" -> Marshal(enqueueReq, [Messages |-> a.msgs])
      [] a.op = "Dequeue" ->
            Marshal(dequeueReq, [Num |-> a.num, Timeout |-> a.timeout,
                                 Wait |-> a.wait, Delete |-> a.delete])
      [] a.op = "DeleteReserved" ->
            Marshal(deleteReservedReq, [ReservationID |-> a.reservationID])
PathOf(a) ==
    CASE a.op = "Enqueue" -> <<"queues/">> \o a.qName \o <<"/messages">>
      [] a.op = "Dequeue" -> <<"queues/">> \o a.qName \o <<"/reservations">>
      [] a.op = "DeleteReserved" ->
            <<"queues/">> \o a.qName \o <<"/messages/", ToString(a.messageID)>>
Endpoint == <<"https", "://", "mq.example", ":", "443", "/3/projects/", "p1">>

\* What the service reads off a request body that was sent.
SentMessages(c) == Decode(enqueueReq, wire[c][1].body, Zero(enqueueReq))
SentDequeue(w) == Decode(dequeueReq, w.body, Zero(dequeueReq))
SentDelete(w) == Decode(deleteReservedReq, w.body, Zero(deleteReservedReq))

\* The method, URL (the string handed to http.NewRequest) and header of a
\* request w sent for a call with arguments a, and the body of a Dequeue.
RequestShape(a, w) ==
    /\ w.header["Content-Type"] = <<"application/json">>
    /\ a.op = "Enqueue" =>
          /\ w.method = "POST"
          /\ w.url = Endpoint \o <<"/", "queues/">> \o a.qName \o <<"/messages">>
    /\ a.op = "Dequeue" =>
          /\ w.method = "POST"
          /\ w.url = Endpoint \o <<"/", "queues/">> \o a.qName \o <<"/reservations">>
          /\ timeoutInRange(a.timeout) /\ waitInRange(a.wait)
          /\ SentDequeue(w) =
                [val |-> [Num |-> a.num, Timeout |-> a.timeout,
                          Wait |-> a.wait, Delete |-> a.delete],
                 err |-> "nil"]
    /\ a.op = "DeleteReserved" =>
          /\ w.method = "DELETE"
          /\ w.url = Endpoint \o <<"/", "queues/">> \o a.qName
                       \o <<"/messages/", ToString(a.messageID)>>
          /\ SentDelete(w).err = "nil"

(***************************************************************************)
(* C1.  A Dequeue whose timeout or wait is out of range returns a nil      *)
(* message list and the validation error of a parameter that is out of     *)
(* range, and at no point of the call is a request built or sent.          *)
(***************************************************************************)
C1_ValidationFailsFast ==
    \A c \in Calls :
        LET a == args[c]
        IN  (a.op = "Dequeue" /\ (~timeoutInRange(a.timeout) \/ ~waitInRange(a.wait))) =>
                /\ pc[c] = "done"
                /\ result[c].ret = NilSlice
                /\ result[c].err \in ValidationErrors
                /\ result[c].err = ErrTimeoutOutOfRange => ~timeoutInRange(a.timeout)
                /\ result[c].err = ErrWaitOutOfRange => ~waitInRange(a.wait)
                /\ req[c] = NoReq
                /\ wire[c] = <<>>
                /\ resp[c] = NoResp

C1_Witness ==
    \E c \in Calls :
        /\ args[c].op = "Dequeue"
        /\ timeoutInRange(args[c].timeout)
        /\ args[c].wait = MaxWait + 1
        /\ pc[c] = "done"
        /\ result[c].err = ErrWaitOutOfRange

(***************************************************************************)
(* C2.  A call puts at most one request on the network, whatever the       *)
(* exchange yields; once the exchange has ended the call only returns.     *)
(***************************************************************************)
C2_AtMostOneRequest ==
    \A c \in Calls :
        /\ Len(wire[c]) <= 1
        /\ pc[c] \in {"inflight", "responded"} => Len(wire[c]) = 1
        /\ Exchanged(c) => Len(wire[c]) = 1

C2_Witness ==
    \E c \in Calls :
        /\ pc[c] = "done"
        /\ resp[c].terr = ErrConnRefused
        /\ result[c].err = ErrConnRefused
        /\ Len(wire[c]) = 1

(***************************************************************************)
(* C3.  When the exchange yields a transport error, or a body that fails   *)
(* to decode, the call returns exactly that error and a nil result; no     *)
(* result is ever returned together with an error.                         *)
(***************************************************************************)
C3_ErrorsPropagateUnchanged ==
    \A c \in Calls :
        /\ Exchanged(c) =>
              LET d == Decode(RetType(args[c].op), resp[c].body, Zero(RetType(args[c].op)))
              IN  /\ resp[c].terr # "nil" =>
                        result[c].err = resp[c].terr /\ result[c].ret.isNil
                  /\ (resp[c].terr = "nil" /\ d.err # "nil") =>
                        result[c].err = d.err /\ result[c].ret.isNil
        /\ (pc[c] = "done" /\ result[c].err # "nil") => result[c].ret.isNil

\* A body of the wrong shape was decoded in part, and the part is not returned.
C3_Witness ==
    \E c \in Calls :
        /\ Exchanged(c)
        /\ args[c].op = "Enqueue"
        /\ resp[c].terr = "nil"
        /\ heap[retp[c]].val.Msg = <<"partial">>
        /\ result[c].err = ErrUnmarshalType
        /\ result[c].ret.isNil

(***************************************************************************)
(* C4.  A call whose context is cancelled while its request is in flight   *)
(* eventually returns a nil result and the cancellation error.             *)
(***************************************************************************)
C4_CancelAborts ==
    \A c \in Calls :
        (pc[c] = "inflight" /\ cancelled[c])
            ~> (pc[c] = "done" /\ result[c].ret.isNil /\ result[c].err = ErrCanceled)

C4_Witness ==
    \E c \in Calls :
        /\ pc[c] = "done"
        /\ cancelled[c]
        /\ Len(wire[c]) = 1
        /\ resp[c].terr = ErrCanceled
        /\ result[c].ret.isNil
        /\ result[c].err = ErrCanceled

C7_RequestShapeValidUTF8 ==
    \A c \in Calls : \A i \in 1..Len(wire[c]) :
        /\ RequestShape(args[c], wire[c][i])
        /\ (args[c].op = "DeleteReserved" /\ ValidUTF8(args[c].reservationID)) =>
              SentDelete(wire[c][i]).val.ReservationID = args[c].reservationID

\* C7 as stated: the body carries the reservation_id passed, whatever it is.
C7_RequestShape ==
    \A c \in Calls : \A i \in 1..Len(wire[c]) :
        /\ RequestShape(args[c], wire[c][i])
        /\ args[c].op = "DeleteReserved" =>
              SentDelete(wire[c][i]).val.ReservationID = args[c].reservationID

C7_Witness ==
    \E c \in Calls :
        /\ args[c].op = "DeleteReserved"
        /\ args[c].messageID = -1
        /\ args[c].reservationID = <<Quote, Lt>>
        /\ wire[c] # <<>>
        /\ wire[c][1].method = "DELETE"
        /\ SentDelete(wire[c][1]).val.ReservationID = <<Quote, Lt>>

(***************************************************************************)
(* C8.  However concurrent calls interleave, each call's request and       *)
(* result are those the call produces from its own arguments and its own   *)
(* response, and the client's fields stay as NewHTTPClient set them.       *)
(***************************************************************************)
C8_CallsAreIsolated ==
    /\ client = NewHTTPClient(SchemeHTTPS, <<"mq.example">>, 443, <<"tok">>, <<"p1">>)
    /\ \A c \in Calls :
          /\ \A i \in 1..Len(wire[c]) :
                /\ wire[c][i].body = BodyOf(args[c])
                /\ wire[c][i].url = Endpoint \o <<"/">> \o PathOf(args[c])
          /\ Exchanged(c) => result[c] = ResultOf(args[c].op, resp[c])

\* Two calls of the same operation overlap, with different arguments and answers.
C8_Witness ==
    \E c1, c2 \in Calls :
        /\ c1 # c2
        /\ args[c1].op = "Enqueue" /\ args[c2].op = "Enqueue"
        /\ args[c1].msgs # args[c2].msgs
        /\ pc[c1] = "responded" /\ resp[c1].terr = "nil"
        /\ pc[c2] = "inflight"
        /\ retp[c1] # retp[c2]

(***************************************************************************)
(* C9.  Dequeue validates timeout before wait, and nothing else: the       *)
(* error is ErrTimeoutOutOfRange whenever timeout is out of range,         *)
(* ErrWaitOutOfRange exactly when timeout is in range and wait is not,     *)
(* and no validation error otherwise, whatever num and delete are.         *)
(***************************************************************************)
C9_TimeoutCheckedFirst ==
    \A c \in Calls :
        LET a == args[c]
        IN  (a.op = "Dequeue" /\ pc[c] = "done") =>
                /\ ~timeoutInRange(a.timeout) => result[c].err = ErrTimeoutOutOfRange
                /\ result[c].err = ErrWaitOutOfRange <=>
                      (timeoutInRange(a.timeout) /\ ~waitInRange(a.wait))
                /\ (timeoutInRange(a.timeout) /\ waitInRange(a.wait)) =>
                      result[c].err \notin ValidationErrors

C9_Witness ==
    \E c \in Calls :
        /\ args[c].op = "Dequeue"
        /\ args[c].num = -1
        /\ args[c].delete
        /\ args[c].timeout = MinTimeout - 1
        /\ args[c].wait = MinWait - 1
        /\ pc[c] = "done"
        /\ result[c].err = ErrTimeoutOutOfRange

(***************************************************************************)
(* C10.  The status of the response has no influence: the call returns     *)
(* what it returns for the same body with status 200, a body that decodes  *)
(* is a success under any status, and every error returned is a            *)
(* validation, construction, transport or decode error.                    *)
(***************************************************************************)
C10_StatusIgnored ==
    \A c \in Calls :
        /\ Exchanged(c) =>
              /\ result[c] = ResultOf(args[c].op, [resp[c] EXCEPT !.status = 200])
              /\ (resp[c].terr = "nil"
                  /\ Decode(RetType(args[c].op), resp[c].body,
                            Zero(RetType(args[c].op))).err = "nil")
                    => result[c].err = "nil"
        /\ pc[c] = "done" =>
              result[c].err \in {"nil"} \cup ValidationErrors \cup ConstructionErrors
                                  \cup TransportErrors \cup DecodeErrors

C10_Witness ==
    \E c \in Calls :
        /\ Exchanged(c)
        /\ args[c].op = "Dequeue"
        /\ resp[c].status = 500
        /\ resp[c].body = Marshal(dequeueResp, [Messages |-> Slice(<<D2, D1>>)])
        /\ result[c] = [ret |-> Slice(<<D2, D1>>), err |-> "nil"]
=============================================================================
